---- MODULE Spec2Model ----
(***************************************************************************)
(* State-machine model of the MAV harvest pipeline:                        *)
(*   - the web trigger (scraper/web_scraper.py): start requests, the       *)
(*     run-status record and the background run thread;                    *)
(*   - the command-line entry (scraper/automated_scraper.py main);         *)
(*   - the harvest driver AutomatedMAVScraper.run_daily_scraping;          *)
(*   - the bulk loop BulkMAVScraper.run_bulk_scraping / process_pair with  *)
(*     MAVScraper.fetch_routes and JSONSaver.scrape_and_save;              *)
(*   - the final upload through CloudUploader.upload_json_output;          *)
(*   - the uploader run on its own (scraper/cloud_uploader.py main), under *)
(*     SpecPublisher;                                                      *)
(*   - the day loader BulkLoader.load_all_bulk_files_from_gcs, under       *)
(*     SpecLoader;                                                         *)
(*   - the delay joiner (DataJoiner and the two map visualizers), under    *)
(*     SpecJoiner.                                                         *)
(* A station pair of the CSV list is identified by its index 1..NumPairs.  *)
(***************************************************************************)
EXTENDS Integers, Sequences, FiniteSets, TLC

\* ------------------------------------------------------------------ bounds
NumPairs == 3            \* rows of the pair-list CSV
MaxRequests == 3         \* start requests the web service receives
MaxClock == 1            \* seconds the wall clock may advance during a run
CliInterval == 2         \* the non-zero --incremental-upload-interval tried
CliMaxPairs == 2         \* the --max-pairs cap tried (0 stands for None)
MaxLocalFiles == 2       \* files the day directory holds under SpecPublisher
MaxInvocations == 2      \* runs of cloud_uploader.py under SpecPublisher
MaxListing == 3          \* objects the bucket lists under one day prefix
LoaderMaxDaysBack == 2   \* max_days_back passed to the day loader
MaxPatterns == 2         \* patterns of the route graph given to the joiner
MaxObservations == 2     \* BulkData records given to the joiner

\* ------------------------------------------------------- program constants
WebInterval == 100       \* web_scraper.py: incremental_upload_interval=100
WebTotalEstimate == 966  \* web_scraper.py: 'total': 966
WebDelay == 2            \* web_scraper.py: delay=2.0
CliDelay == 2            \* automated_scraper.py: --delay, default=2.0

Requests == 1..MaxRequests
Pairs == 1..NumPairs

\* Outcomes of one POST to the offer API as fetch_routes distinguishes them.
Responses == {"ok200", "http4xx", "http5xx", "neterr", "decode"}

ZeroUploadStats ==
    [incremental_uploads |-> 0, incremental_files_uploaded |-> 0,
     final_files_uploaded |-> 0, total_upload_attempts |-> 0,
     upload_errors |-> 0]

ZeroStats == [total_pairs |-> 0, processed |-> 0, successful |-> 0, failed |-> 0]

\* The module-level scraping_status dictionary.
InitialStatus ==
    [is_running |-> FALSE, start_time |-> "None", end_time |-> "None",
     progress |-> 0, total |-> 0, status |-> "idle", last_error |-> "None",
     upload_stats |-> ZeroUploadStats]

\* Arguments the background thread passes to run_daily_scraping.
WebArgs == [max_pairs |-> 0, upload |-> TRUE, interval |-> WebInterval, delay |-> WebDelay]

\* Arguments the command line may pass (max_pairs 0 stands for None):
\* --no-upload, upload without incremental uploads, upload with them; --delay
\* 0 or its default.
CliArgChoices ==
    {a \in [max_pairs : {0, CliMaxPairs}, upload : BOOLEAN, interval : {0, CliInterval},
            delay : {0, CliDelay}] :
        ~a.upload => a.interval = 0}

VARIABLES
    entry,            \* "web": web_scraper.py is the process; "cli": automated_scraper.py
    csv_len,          \* number of usable rows load_station_pairs returns
    scraping_status,  \* web_scraper.scraping_status (guarded by scraping_lock)
    req,              \* per start request: "new", "spawn", "ok", "conflict"
    thr,              \* per request: position of the thread it spawned
    cli_pc,           \* position of automated_scraper.main
    cli_args,         \* parsed command-line arguments
    uploader,         \* AutomatedMAVScraper.uploader is not None
    args,             \* arguments of the current run_daily_scraping call
    upload_stats,     \* AutomatedMAVScraper.upload_stats
    stats,            \* BulkMAVScraper.stats
    rpc,              \* position inside run_daily_scraping
    result,           \* value run_daily_scraping returned
    raised,           \* text of the exception run_daily_scraping caught and logged
    i,                \* 1-based index of the pair being processed
    ppc,              \* position inside process_pair
    ret,              \* value process_pair is about to return
    first_resp,       \* response of the first offer request of the current pair
    stamp,            \* timestamp process_pair put into the file name
    calls,            \* offer requests sent upstream for the current pair
    sleeps,           \* time.sleep calls made in this run
    attempts,         \* per pair: process_pair invocations in this run
    files,            \* files in the day directory
    now,              \* wall clock (seconds)
    gcs,              \* object names present under the day prefix of the bucket
    final_uploads,    \* final upload batches invoked in this run
    upload_results,   \* cloud_uploader.main: the dictionary upload_json_output returned
    invocations,      \* cloud_uploader.main: runs with --json-output so far
    exclude_compact,  \* day loader: its exclude_compact argument
    days_back,        \* day loader: loop variable of the look-back
    dl_pc,            \* day loader: position inside load_all_bulk_files_from_gcs
    json_blobs,       \* day loader: blobs of the tried date after the name filters
    remaining,        \* day loader: blobs the grouping loop has not visited yet
    latest_blobs,     \* day loader: the dictionary, as entries in insertion order
    idx,              \* day loader: 1-based index of the processing loop
    bulk_data,        \* day loader: the list of parsed BulkData
    skipped,          \* day loader: keys whose blob was reported skipped or failed
    matched,          \* per tried days_back: blobs whose name matched the pattern
    routes,           \* joiner: the patterns of the loaded routes, each a list of stop ids
    bulk_data_list,   \* joiner: the BulkData records handed to the map generators
    jn_pc,            \* joiner: position in the map generation
    station_max_delays,   \* create_station_max_delay_map's dictionary (insertion order)
    segment_max_delays,   \* add_max_delay_routes: segment key -> aggregated delays
    pattern_lines,    \* add_max_delay_routes: per drawn pattern, the segments with data
    station_delays,   \* create_station_delay_map's dictionary (insertion order)
    enriched_segments,    \* create_route_segments_with_delay's list
    route_lines,      \* add_delay_routes: per drawn pattern, the segment data it used
    bucket,           \* run_for_date: per date, the objects under its day prefix
    only,             \* run_for_date: its --only argument
    rfd_pc,           \* run_for_date: position inside the function
    map_load,         \* run_for_date: what the map loader's call ended in
    analytics_load    \* run_for_date: what the analytics loader's call ended in

webvars == <<scraping_status, req, thr>>
clivars == <<cli_pc, cli_args>>
drivervars == <<uploader, args, upload_stats, rpc, result, raised, gcs, final_uploads>>
drivervars_but_gcs == <<uploader, args, upload_stats, rpc, result, raised, final_uploads>>
bulkvars == <<stats, i, ppc, ret, first_resp, stamp, calls, sleeps, attempts, files, now>>
pubvars == <<upload_results, invocations>>
loadvars == <<exclude_compact, days_back, dl_pc, json_blobs, remaining,
              latest_blobs, idx, bulk_data, skipped, matched>>
joinvars == <<routes, bulk_data_list, jn_pc, station_max_delays, segment_max_delays,
              pattern_lines, station_delays, enriched_segments, route_lines>>
rfdvars == <<bucket, only, rfd_pc, map_load, analytics_load>>
toolvars == <<pubvars, loadvars, joinvars, rfdvars>>
harvestvars == <<entry, csv_len, webvars, clivars, drivervars, bulkvars>>
vars == <<entry, csv_len, webvars, clivars, drivervars, bulkvars, toolvars>>


\* ------------------------------------------------------------------- Init
FreshBulk ==
    /\ stats = ZeroStats
    /\ i = 0
    /\ ppc = "none"
    /\ ret = FALSE
    /\ first_resp = "none"
    /\ stamp = 0
    /\ calls = 0
    /\ sleeps = 0
    /\ attempts = [p \in Pairs |-> 0]

\* The stand-alone uploader has not run.
PublisherIdle ==
    /\ upload_results = << >>
    /\ invocations = 0

\* The day loader has not been called.
LoaderIdle ==
    /\ exclude_compact = TRUE
    /\ days_back = 0
    /\ dl_pc = "off"
    /\ json_blobs = {}
    /\ remaining = {}
    /\ latest_blobs = << >>
    /\ idx = 0
    /\ bulk_data = << >>
    /\ skipped = {}
    /\ matched = [d \in 0..(LoaderMaxDaysBack - 1) |-> 0]

\* No map is being generated.
JoinerOutputsEmpty ==
    /\ station_max_delays = << >>
    /\ segment_max_delays = << >>
    /\ pattern_lines = << >>
    /\ station_delays = << >>
    /\ enriched_segments = << >>
    /\ route_lines = << >>

JoinerIdle ==
    /\ routes = << >>
    /\ bulk_data_list = << >>
    /\ jn_pc = "off"
    /\ JoinerOutputsEmpty

\* run_for_date has not been called.
NotLoaded == [status |-> "none", date |-> 0, selected |-> {}, loaded |-> << >>]

RunIdle ==
    /\ bucket = << >>
    /\ only = "all"
    /\ rfd_pc = "off"
    /\ map_load = NotLoaded
    /\ analytics_load = NotLoaded

ToolsIdle == PublisherIdle /\ LoaderIdle /\ JoinerIdle /\ RunIdle

Init ==
    /\ entry \in {"web", "cli"}
    /\ csv_len \in (IF entry = "cli" THEN {0, NumPairs} ELSE {NumPairs})
    /\ scraping_status = InitialStatus
    /\ req = [r \in Requests |-> "new"]
    /\ thr = [r \in Requests |-> "none"]
    /\ cli_pc = (IF entry = "cli" THEN "start" ELSE "off")
    /\ cli_args \in (IF entry = "cli" THEN CliArgChoices ELSE {WebArgs})
    /\ uploader = FALSE
    /\ args = WebArgs
    /\ upload_stats = ZeroUploadStats
    /\ rpc = "idle"
    /\ result = FALSE
    /\ raised = "None"
    /\ FreshBulk
    /\ files = {}
    /\ now = 0
    /\ gcs = {}
    /\ final_uploads = 0
    /\ ToolsIdle

\* AutomatedMAVScraper.__init__ / BulkMAVScraper.__init__: a new scraper object
\* with zeroed statistics; the uploader is None when CloudUploader raises.
NewScraper(up) ==
    /\ uploader' = up
    /\ upload_stats' = ZeroUploadStats
    /\ stats' = ZeroStats
    /\ i' = 0
    /\ ppc' = "none"
    /\ ret' = FALSE
    /\ first_resp' = "none"
    /\ stamp' = 0
    /\ calls' = 0
    /\ sleeps' = 0
    /\ attempts' = [p \in Pairs |-> 0]
    /\ final_uploads' = 0
    /\ raised' = "None"
    /\ UNCHANGED <<args, rpc, result, gcs, files, now>>

\* run_daily_scraping, entry: the upload statistics are reset.
EnterDailyScraping(a) ==
    /\ rpc = "idle"
    /\ args' = a
    /\ upload_stats' = ZeroUploadStats
    /\ rpc' = "bulk"
    /\ UNCHANGED <<uploader, result, raised, gcs, final_uploads>>

\* ------------------------------------------------------------ web trigger
\* Mutant: the start request does not look at is_running.
AlreadyRunning_Unchecked(st) == FALSE

\* start_daily_scraping: the test made under scraping_lock.
AlreadyRunning(st) == st.is_running

\* start_daily_scraping: the status reset made under scraping_lock.
StartStatus(st) ==
    [st EXCEPT !.is_running = TRUE, !.start_time = "set", !.end_time = "None",
               !.progress = 0, !.total = 0, !.status = "starting",
               !.last_error = "None", !.upload_stats = ZeroUploadStats]

\* The critical section of start_daily_scraping: 409 or the status reset.
start_daily_scraping(r) ==
    /\ entry = "web"
    /\ req[r] = "new"
    /\ IF AlreadyRunning(scraping_status)
       THEN /\ req' = [req EXCEPT ![r] = "conflict"]
            /\ UNCHANGED scraping_status
       ELSE /\ req' = [req EXCEPT ![r] = "spawn"]
            /\ scraping_status' = StartStatus(scraping_status)
    /\ UNCHANGED <<toolvars, entry, csv_len, thr, clivars, drivervars, bulkvars>>

\* start_daily_scraping after the lock: the background thread is started.
start_thread(r) ==
    /\ req[r] = "spawn"
    /\ req' = [req EXCEPT ![r] = "ok"]
    /\ thr' = [thr EXCEPT ![r] = "begin"]
    /\ UNCHANGED <<toolvars, entry, csv_len, scraping_status, clivars, drivervars, bulkvars>>

\* run_daily_scraping_background: first status update.
RunningStatus(st) == [st EXCEPT !.status = "running"]

bg_set_running(r) ==
    /\ thr[r] = "begin"
    /\ scraping_status' = RunningStatus(scraping_status)
    /\ thr' = [thr EXCEPT ![r] = "construct"]
    /\ UNCHANGED <<toolvars, entry, csv_len, req, clivars, drivervars, bulkvars>>

\* Mutant: the except branch records the error and leaves the flag set.
ErrorStatus_StillRunning(st, e) ==
    [st EXCEPT !.status = "error", !.last_error = e]

\* run_daily_scraping_background: the except branch.
ErrorStatus(st, e) ==
    [st EXCEPT !.is_running = FALSE, !.end_time = "set", !.status = "error",
               !.last_error = e]

\* run_daily_scraping_background: the scraper is created; its constructor may raise.
bg_create_scraper(r) ==
    /\ thr[r] = "construct"
    /\ \/ /\ scraping_status' = ErrorStatus(scraping_status, "ConstructorError")
          /\ thr' = [thr EXCEPT ![r] = "done"]
          /\ UNCHANGED <<drivervars, bulkvars>>
       \/ /\ \E up \in BOOLEAN : NewScraper(up)
          /\ thr' = [thr EXCEPT ![r] = "total"]
          /\ UNCHANGED scraping_status
    /\ UNCHANGED <<toolvars, entry, csv_len, req, clivars>>

\* run_daily_scraping_background: the default total estimate.
TotalStatus(st) == [st EXCEPT !.total = WebTotalEstimate]

bg_set_total(r) ==
    /\ thr[r] = "total"
    /\ scraping_status' = TotalStatus(scraping_status)
    /\ thr' = [thr EXCEPT ![r] = "call"]
    /\ UNCHANGED <<toolvars, entry, csv_len, req, clivars, drivervars, bulkvars>>

\* run_daily_scraping_background: the call of run_daily_scraping.
bg_call(r) ==
    /\ thr[r] = "call"
    /\ EnterDailyScraping(WebArgs)
    /\ thr' = [thr EXCEPT ![r] = "wait"]
    /\ UNCHANGED <<toolvars, entry, csv_len, scraping_status, req, clivars, bulkvars>>

\* Mutant: the thread resets the phase to idle when the run returned.
FinalStatus_Idle(st, success, bstats, ustats) ==
    [st EXCEPT !.is_running = FALSE, !.end_time = "set", !.status = "idle",
               !.progress = bstats.processed, !.upload_stats = ustats]

\* run_daily_scraping_background: the status written after the run returned.
FinalStatus(st, success, bstats, ustats) ==
    [st EXCEPT !.is_running = FALSE, !.end_time = "set",
               !.status = IF success THEN "completed" ELSE "failed",
               !.progress = bstats.processed, !.upload_stats = ustats]

bg_finish(r) ==
    /\ thr[r] = "wait"
    /\ rpc = "returned"
    /\ scraping_status' = FinalStatus(scraping_status, result, stats, upload_stats)
    /\ thr' = [thr EXCEPT ![r] = "done"]
    /\ rpc' = "idle"
    /\ UNCHANGED <<toolvars, entry, csv_len, req, clivars, bulkvars,
                   uploader, args, upload_stats, result, raised, gcs, final_uploads>>

\* ------------------------------------------------------ command-line entry
\* main: the scraper is created; a constructor exception exits with code 1.
\* The uploader exists only when --bucket is given (runs that upload) and
\* CloudUploader did not raise.
cli_create ==
    /\ cli_pc = "start"
    /\ \/ /\ cli_pc' = "exit1"
          /\ UNCHANGED <<drivervars, bulkvars>>
       \/ /\ \E up \in (IF cli_args.upload THEN BOOLEAN ELSE {FALSE}) : NewScraper(up)
          /\ cli_pc' = "call"
    /\ UNCHANGED <<toolvars, entry, csv_len, webvars, cli_args>>

\* main: run_daily_scraping is called with the parsed arguments.
cli_call ==
    /\ cli_pc = "call"
    /\ EnterDailyScraping(cli_args)
    /\ cli_pc' = "wait"
    /\ UNCHANGED <<toolvars, entry, csv_len, webvars, cli_args, bulkvars>>

\* main: sys.exit(0 if success else 1).
cli_exit ==
    /\ cli_pc = "wait"
    /\ rpc = "returned"
    /\ cli_pc' = (IF result THEN "exit0" ELSE "exit1")
    /\ rpc' = "idle"
    /\ UNCHANGED <<toolvars, entry, csv_len, webvars, cli_args, bulkvars,
                   uploader, args, upload_stats, result, raised, gcs, final_uploads>>

\* ----------------------------------------------------------- harvest driver
\* incremental_upload_callback, the progress callback run_daily_scraping hands
\* to run_bulk_scraping: the upload statistics after one incremental batch over
\* nfiles files whose copy ended "ok" or "fail", or whose upload call raised.
incremental_upload_callback(us, a, up, outcome, nfiles) ==
    IF ~a.upload \/ ~up THEN us
    ELSE IF outcome = "raise" THEN [us EXCEPT !.upload_errors = @ + 1]
    ELSE LET successful == IF outcome = "ok" THEN nfiles ELSE 0
         IN [us EXCEPT !.incremental_uploads = @ + 1,
                       !.incremental_files_uploaded = @ + successful,
                       !.total_upload_attempts = @ + nfiles,
                       !.upload_errors = IF nfiles > 0 /\ 10 * successful < 8 * nfiles
                                         THEN @ + (nfiles - successful) ELSE @]

\* def run_bulk_scraping(self, max_pairs, base_delay_seconds): the parameters
\* the bulk loop accepts.
RunBulkScrapingParams == {"max_pairs", "base_delay_seconds"}

\* run_daily_scraping: the keyword arguments of its call of run_bulk_scraping
\* (the else branch passes two positional arguments and no keyword).
CallKeywords(a) ==
    IF a.upload /\ a.interval > 0
    THEN {"max_pairs", "base_delay_seconds", "progress_callback", "progress_interval"}
    ELSE {}

\* run_bulk_scraping: pairs = pairs[:max_pairs] when max_pairs is set and smaller.
CappedLen(max_pairs, n) ==
    IF max_pairs # 0 /\ max_pairs < n THEN max_pairs ELSE n

\* run_daily_scraping calls run_bulk_scraping. An unexpected keyword raises
\* TypeError, which the except clause of run_daily_scraping logs: return False.
\* An empty pair list returns at once; otherwise the loop starts.
bulk_start ==
    /\ rpc = "bulk"
    /\ IF ~(CallKeywords(args) \subseteq RunBulkScrapingParams)
       THEN /\ rpc' = "returned"
            /\ result' = FALSE
            /\ raised' = "TypeError"
            /\ UNCHANGED bulkvars
       ELSE /\ UNCHANGED <<result, raised>>
            /\ IF csv_len = 0
               THEN /\ rpc' = "evaluate"
                    /\ UNCHANGED bulkvars
               ELSE /\ rpc' = "loop"
                    /\ stats' = [stats EXCEPT !.total_pairs = CappedLen(args.max_pairs, csv_len)]
                    /\ i' = 1
                    /\ ppc' = "resolve"
                    /\ UNCHANGED <<ret, first_resp, stamp, calls, sleeps, attempts, files, now>>
    /\ UNCHANGED <<toolvars, entry, csv_len, webvars, clivars,
                   uploader, args, upload_stats, gcs, final_uploads>>

\* ----------------------------------------------------------- process_pair
\* MAVScraper._add_random_delay, which fetch_routes calls before every POST:
\* one time.sleep of 0.5 to 2 seconds.
add_random_delay(n) == n + 1

\* BulkMAVScraper._apply_variable_delay, called in the finally clause of
\* process_pair: no sleep when base_delay <= 0, one time.sleep otherwise.
apply_variable_delay(n, base_delay) == IF base_delay <= 0 THEN n ELSE n + 1

\* fetch_routes: one POST; True only for status 200 with a decodable body.
fetch_routes(k) == k = "ok200"

\* scrape_to_json: the document it returns after its own fetch_routes call.
scrape_to_json(k) == [success |-> fetch_routes(k)]

\* Mutant: the compact document is written under the name of the pretty one.
FileName_NoSuffix(p, t, suffix) == [prefix |-> "bulk", pair |-> p, ts |-> t, suffix |-> ""]

\* process_pair / scrape_and_save: the file names in the day directory.
FileName(p, t, suffix) == [prefix |-> "bulk", pair |-> p, ts |-> t, suffix |-> suffix]

\* open(path, 'w').write(data): creates the file or replaces its content.
WriteFile(fs, name, content) ==
    {f \in fs : f.name # name} \cup {[name |-> name, content |-> content]}

FilesOfPair(fs, p) == {f \in fs : f.name.pair = p}

\* process_pair: both station names are resolved, or the attempt ends False.
pp_resolve ==
    /\ rpc = "loop"
    /\ ppc = "resolve"
    /\ attempts' = [attempts EXCEPT ![i] = @ + 1]
    /\ \E resolved \in BOOLEAN :
          IF resolved
          THEN ppc' = "fetch" /\ UNCHANGED ret
          ELSE ppc' = "finally" /\ ret' = FALSE
    /\ UNCHANGED <<toolvars, entry, csv_len, webvars, clivars, drivervars,
                   stats, i, first_resp, stamp, calls, sleeps, files, now>>

\* process_pair: the first fetch_routes call; on success the file name is
\* formed from the wall clock.
pp_fetch ==
    /\ rpc = "loop"
    /\ ppc = "fetch"
    /\ \E k \in Responses :
          /\ calls' = calls + 1
          /\ sleeps' = add_random_delay(sleeps)
          /\ first_resp' = k
          /\ IF fetch_routes(k)
             THEN ppc' = "save_pretty" /\ stamp' = now /\ UNCHANGED ret
             ELSE ppc' = "finally" /\ ret' = FALSE /\ UNCHANGED stamp
    /\ UNCHANGED <<toolvars, entry, csv_len, webvars, clivars, drivervars,
                   stats, i, attempts, files, now>>

\* scrape_and_save, first half: scrape_to_json fetches the pair again and the
\* pretty file is written; a failing write raises into process_pair.
pp_save_pretty ==
    /\ rpc = "loop"
    /\ ppc = "save_pretty"
    /\ calls' = calls + 1
    /\ sleeps' = add_random_delay(sleeps)
    /\ \E k \in Responses, write_fails \in BOOLEAN :
          IF write_fails
          THEN ppc' = "finally" /\ ret' = FALSE /\ UNCHANGED files
          ELSE /\ files' = WriteFile(files, FileName(i, stamp, ""), scrape_to_json(k))
               /\ ppc' = "save_compact"
               /\ UNCHANGED ret
    /\ UNCHANGED <<toolvars, entry, csv_len, webvars, clivars, drivervars,
                   stats, i, first_resp, stamp, attempts, now>>

\* The pretty document scrape_and_save parses back for its summary.
PrettySuccess(fs, p, t) ==
    \E f \in fs : f.name = FileName(p, t, "") /\ f.content.success

\* scrape_and_save, second half: scrape_to_json fetches a third time, the
\* compact file is written, the summary is printed (the price range and the
\* fastest route raise on some route lists) and process_pair returns True.
pp_save_compact ==
    /\ rpc = "loop"
    /\ ppc = "save_compact"
    /\ calls' = calls + 1
    /\ sleeps' = add_random_delay(sleeps)
    /\ \E k \in Responses, exc \in {"none", "write", "summary"} :
          /\ exc = "summary" => PrettySuccess(files, i, stamp)
          /\ files' = IF exc = "write" THEN files
                      ELSE WriteFile(files, FileName(i, stamp, "_compact"), scrape_to_json(k))
          /\ ret' = (exc = "none")
    /\ ppc' = "finally"
    /\ UNCHANGED <<toolvars, entry, csv_len, webvars, clivars, drivervars,
                   stats, i, first_resp, stamp, attempts, now>>

\* Mutant: a failed pair is counted failed but not processed.
CountPair_FailedNotProcessed(st, ok) ==
    [st EXCEPT !.successful = IF ok THEN @ + 1 ELSE @,
               !.failed = IF ok THEN @ ELSE @ + 1,
               !.processed = IF ok THEN @ + 1 ELSE @]

\* run_bulk_scraping: the counters after process_pair returned ok.
CountPair(st, ok) ==
    [st EXCEPT !.successful = IF ok THEN @ + 1 ELSE @,
               !.failed = IF ok THEN @ ELSE @ + 1,
               !.processed = @ + 1]

\* Mutant: the loop is left at the first pair that failed.
MorePairs_UntilFailure(n, total, ok) == ok /\ n < total

\* for i, (source, dest) in enumerate(pairs, 1): the loop goes on to pair
\* n + 1 while pairs remain, whatever process_pair returned for pair n.
MorePairs(n, total, ok) == n < total

\* tracked_process_pair (web service only): after the wrapped process_pair
\* returned, progress and total are copied from the scraper's statistics.
TrackedStatus(st, bstats, ustats) ==
    [st EXCEPT !.progress = bstats.processed,
               !.total = bstats.total_pairs,
               !.upload_stats = IF bstats.total_pairs > 0 THEN ustats ELSE @]

\* process_pair's finally clause (the variable delay, during which the clock
\* may advance; a pair with an unresolved station returned before the try
\* statement and has no finally clause), the progress wrapper of the web
\* service, and the loop's bookkeeping; after the last pair run_bulk_scraping
\* returns.
pp_return ==
    /\ rpc = "loop"
    /\ ppc = "finally"
    /\ \E dt \in 0..1 : now + dt <= MaxClock /\ now' = now + dt
    /\ scraping_status' = IF entry = "web"
                          THEN TrackedStatus(scraping_status, stats, upload_stats)
                          ELSE scraping_status
    /\ stats' = CountPair(stats, ret)
    /\ sleeps' = IF calls > 0 THEN apply_variable_delay(sleeps, args.delay) ELSE sleeps
    /\ first_resp' = "none"
    /\ stamp' = 0
    /\ ret' = FALSE
    /\ calls' = 0
    /\ IF MorePairs(i, stats.total_pairs, ret)
       THEN i' = i + 1 /\ ppc' = "resolve" /\ UNCHANGED rpc
       ELSE i' = 0 /\ ppc' = "none" /\ rpc' = "evaluate"
    /\ UNCHANGED <<toolvars, entry, csv_len, req, thr, clivars, attempts, files,
                   uploader, args, upload_stats, result, raised, gcs, final_uploads>>

\* ------------------------------------------------- evaluation, final upload
\* run_daily_scraping: scraping_success.
ScrapingSuccess(st) == st.successful > 0 /\ 2 * st.failed < st.processed

\* run_daily_scraping: the final upload is made when enabled and configured.
FinalUploadDue(a, up) == a.upload /\ up

\* run_daily_scraping: the statistics after the final upload.
FinalUploadStats(us, successful, total) ==
    [us EXCEPT !.final_files_uploaded = successful,
               !.total_upload_attempts = @ + total,
               !.upload_errors = IF total > 0 /\ 10 * successful < 8 * total
                                 THEN @ + (total - successful) ELSE @]

\* upload_directory_contents: one recursive copy of the day directory; with
\* exit code 0 every file is in the bucket; otherwise the copy of one file
\* failed, or nothing was copied at all.
Copied(fs, rc_ok) == IF rc_ok THEN {fs} ELSE {{}} \cup {fs \ {f} : f \in fs}

\* Mutant: the day prefix is made a mirror of what the batch copied.
PutAll_Mirror(store, fs) == fs

\* gcloud storage cp: each copied file replaces the object of its name.
PutAll(store, fs) ==
    {o \in store : \A f \in fs : f.name # o.name} \cup fs

\* run_daily_scraping after the bulk loop returned: a failed harvest returns
\* False at once; otherwise the final upload runs when due, and True is returned.
evaluate ==
    /\ rpc = "evaluate"
    /\ rpc' = "returned"
    /\ IF ~ScrapingSuccess(stats)
       THEN /\ result' = FALSE
            /\ UNCHANGED <<upload_stats, gcs, final_uploads>>
       ELSE /\ result' = TRUE
            /\ IF FinalUploadDue(args, uploader)
               THEN \E rc_ok \in BOOLEAN : \E sent \in Copied(files, rc_ok) :
                       /\ gcs' = PutAll(gcs, sent)
                       /\ upload_stats' =
                             FinalUploadStats(upload_stats,
                                 IF rc_ok THEN Cardinality(files) ELSE 0,
                                 Cardinality(files))
                       /\ final_uploads' = final_uploads + 1
               ELSE UNCHANGED <<upload_stats, gcs, final_uploads>>
    /\ UNCHANGED <<toolvars, entry, csv_len, webvars, clivars, bulkvars, uploader, args, raised>>

\* ------------------------------------------------------------------- Next
Next ==
    \/ \E r \in Requests : start_daily_scraping(r)
    \/ \E r \in Requests : start_thread(r)
    \/ \E r \in Requests : bg_set_running(r)
    \/ \E r \in Requests : bg_create_scraper(r)
    \/ \E r \in Requests : bg_set_total(r)
    \/ \E r \in Requests : bg_call(r)
    \/ \E r \in Requests : bg_finish(r)
    \/ cli_create
    \/ cli_call
    \/ cli_exit
    \/ bulk_start
    \/ pp_resolve
    \/ pp_fetch
    \/ pp_save_pretty
    \/ pp_save_compact
    \/ pp_return
    \/ evaluate

Spec == Init /\ [][Next]_vars

\* ------------------------------------------------------------ web service
\* The web service alone. Its thread always calls run_daily_scraping with
\* upload=True and incremental_upload_interval=100, so bulk_start ends the
\* call before the pair loop: the steps below are all the steps the service
\* takes.
InitWeb == Init /\ entry = "web"

\* A step of the background thread.
ThreadStep ==
    \/ \E r \in Requests : start_thread(r)
    \/ \E r \in Requests : bg_set_running(r)
    \/ \E r \in Requests : bg_create_scraper(r)
    \/ \E r \in Requests : bg_set_total(r)
    \/ \E r \in Requests : bg_call(r)
    \/ \E r \in Requests : bg_finish(r)
    \/ bulk_start

NextWeb ==
    \/ \E r \in Requests : start_daily_scraping(r)
    \/ \E r \in Requests : start_thread(r)
    \/ \E r \in Requests : bg_set_running(r)
    \/ \E r \in Requests : bg_create_scraper(r)
    \/ \E r \in Requests : bg_set_total(r)
    \/ \E r \in Requests : bg_call(r)
    \/ \E r \in Requests : bg_finish(r)
    \/ bulk_start

\* threading.Thread(...).start(): the interpreter keeps scheduling a thread
\* that can run, and no step of the thread waits without bound. Clients need
\* not send requests.
SpecWeb == InitWeb /\ [][NextWeb]_vars /\ WF_vars(ThreadStep)

\* The harvest processes are not part of the run: their variables keep the
\* values of a fresh start.
HarvestOff(e) ==
    /\ entry = e
    /\ csv_len = NumPairs
    /\ scraping_status = InitialStatus
    /\ req = [r \in Requests |-> "new"]
    /\ thr = [r \in Requests |-> "none"]
    /\ cli_pc = "off"
    /\ cli_args = WebArgs
    /\ uploader = FALSE
    /\ args = WebArgs
    /\ upload_stats = ZeroUploadStats
    /\ rpc = "idle"
    /\ result = FALSE
    /\ raised = "None"
    /\ FreshBulk
    /\ files = {}
    /\ now = 0
    /\ gcs = {}
    /\ final_uploads = 0

\* ------------------------------------------- the uploader run on its own
\* python cloud_uploader.py --bucket B --json-output --date-filter <today>,
\* run any number of times while scraper processes write into the day directory.

\* Mutant: every file of the day directory is reported as uploaded.
upload_directory_contents_AllTrue(fs, rc_ok) == [n \in {f.name : f \in fs} |-> TRUE]

\* upload_directory_contents: the dictionary it returns; the exit code of the
\* one copy command decides the entry of every file of the directory.
upload_directory_contents(fs, rc_ok) == [n \in {f.name : f \in fs} |-> rc_ok]

\* Files a scraper process may write: json_saver documents named by FileName.
LocalDocuments ==
    {[name |-> FileName(p, 0, ""), content |-> scrape_to_json(k)] :
        p \in Pairs, k \in Responses}

InitPublisher ==
    /\ HarvestOff("uploader")
    /\ ToolsIdle

\* A scraper process writes (or rewrites) one document in the day directory.
scraper_writes ==
    /\ entry = "uploader"
    /\ \E d \in LocalDocuments :
          /\ files' = WriteFile(files, d.name, d.content)
          /\ Cardinality(files') <= MaxLocalFiles
    /\ UNCHANGED <<entry, csv_len, webvars, clivars, drivervars_but_gcs, gcs,
                   stats, i, ppc, ret, first_resp, stamp, calls, sleeps, attempts, now, toolvars>>

\* cloud_uploader.main with --json-output: CloudUploader may raise (exit 1);
\* otherwise upload_json_output copies the day directory with one command and
\* returns the per-file dictionary.
uploader_main ==
    /\ entry = "uploader"
    /\ invocations < MaxInvocations
    /\ invocations' = invocations + 1
    /\ \/ UNCHANGED <<gcs, upload_results>>
       \/ \E rc_ok \in BOOLEAN : \E sent \in Copied(files, rc_ok) :
             /\ gcs' = PutAll(gcs, sent)
             /\ upload_results' = upload_directory_contents(files, rc_ok)
    /\ UNCHANGED <<entry, csv_len, webvars, clivars, drivervars_but_gcs, bulkvars,
                   loadvars, joinvars, rfdvars>>

NextPublisher ==
    \/ scraper_writes
    \/ uploader_main

SpecPublisher == InitPublisher /\ [][NextPublisher]_vars

\* ------------------------------------------------------------ day loader
\* BulkLoader.load_all_bulk_files_from_gcs(target_date, exclude_compact,
\* max_days_back). Dates are day numbers; station ids are digit strings, here
\* 1 and 2; a timestamp YYYYMMDD_HHMMSS is a fixed-width sequence of digits,
\* here the two digits of the hour.
LoaderStations == {1, 2}
Stamps == {<<0, 9>>, <<1, 0>>}

\* Object names under one day prefix: harvest blobs bulk_<s>_<e>_<ts>.json, a
\* compact companion, a derived <analytic_name>.json and a maps/<name>.html.
BulkNames ==
    {n \in [kind : {"bulk"}, start : LoaderStations, end : LoaderStations, ts : Stamps] :
        n.start # n.end}

OtherNames ==
    {[kind |-> c, start |-> 1, end |-> 2, ts |-> <<0, 9>>] :
        c \in {"compact", "analytic", "html"}}

BlobNames == BulkNames \cup OtherNames

\* blob.name.endswith('.json')
EndsWithJson(b) == b.kind \in {"bulk", "compact", "analytic"}

\* '_compact' in blob.name
HasCompact(b) == b.kind = "compact"

\* re.match(r'bulk_(\d+)_(\d+)_(\d{8}_\d{6})\.json', filename)
PatternMatches(b) == b.kind = "bulk"

\* The two name filters applied to the listing of a day prefix.
JsonBlobs(blobs, excl) ==
    {b \in blobs : EndsWithJson(b) /\ (excl => ~HasCompact(b))}

\* try_date = target_date - timedelta(days=days_back); the target date is day
\* LoaderMaxDaysBack, so every tried date is a positive day number.
TryDate(d) == LoaderMaxDaysBack - d

\* Mutant: a blob listed later always replaces the one kept for its pair.
StampGreater_Always(a, b) == TRUE

\* timestamp > latest_blobs[key][0]: Python's comparison of two strings of the
\* same length, character by character from the left.
StampGreater(a, b) ==
    \E j \in 1..Len(a) : a[j] > b[j] /\ \A h \in 1..(j - 1) : a[h] = b[h]

\* Mutant: the dictionary key also holds the timestamp.
BlobKey_WithStamp(b) == <<b.start, b.end, b.ts>>

\* key = (start_station, end_station)
BlobKey(b) == <<b.start, b.end>>

KeyIndex(lb, key) == {j \in 1..Len(lb) : lb[j].key = key}

\* The grouping loop's body for a blob whose name matched: a new key is
\* inserted at the end of the dictionary, a known key keeps its position and
\* takes the blob when its timestamp is greater.
KeepLatest(lb, b) ==
    LET at == KeyIndex(lb, BlobKey(b))
    IN  IF at = {}
        THEN Append(lb, [key |-> BlobKey(b), ts |-> b.ts, blob |-> b])
        ELSE LET j == CHOOSE x \in at : TRUE
             IN  IF StampGreater(b.ts, lb[j].ts)
                 THEN [lb EXCEPT ![j] = [key |-> BlobKey(b), ts |-> b.ts, blob |-> b]]
                 ELSE lb

\* What downloading, decoding and parsing one retained blob may end in:
\* a BulkData, json.JSONDecodeError, another exception (the download), or
\* None from parse_bulk_json_content.
BlobOutcomes == {"ok", "invalid_json", "download_error", "parse_none"}

\* parse_bulk_json_content with the key, timestamp and tried date passed in.
ParsedBulkData(e, date) ==
    [start_station |-> e.blob.start, end_station |-> e.blob.end,
     timestamp |-> e.ts, travel_date |-> date]

\* Mutant: an exception while processing a blob discards the list built so far.
ProcessBlob_Discard(bd, e, outcome, date) ==
    IF outcome = "ok" THEN Append(bd, ParsedBulkData(e, date)) ELSE << >>

\* The processing loop's body: a parsed blob is appended, any failure is
\* printed and the loop continues.
ProcessBlob(bd, e, outcome, date) ==
    IF outcome = "ok" THEN Append(bd, ParsedBulkData(e, date)) ELSE bd

InitLoader ==
    /\ HarvestOff("loader")
    /\ PublisherIdle
    /\ JoinerIdle
    /\ RunIdle
    /\ exclude_compact \in BOOLEAN
    /\ days_back = 0
    /\ dl_pc = "try"
    /\ json_blobs = {}
    /\ remaining = {}
    /\ latest_blobs = << >>
    /\ idx = 0
    /\ bulk_data = << >>
    /\ skipped = {}
    /\ matched = [d \in 0..(LoaderMaxDaysBack - 1) |-> 0]

\* "No data found for try_date": the next iteration of the look-back loop, or
\* the exception after the last one.
NextDate ==
    /\ days_back' = days_back + 1
    /\ dl_pc' = IF days_back + 1 < LoaderMaxDaysBack THEN "try" ELSE "raised"
    /\ json_blobs' = {}
    /\ remaining' = {}
    /\ latest_blobs' = << >>
    /\ idx' = 0
    /\ bulk_data' = << >>

\* One iteration of the look-back loop up to "if json_blobs:": the day prefix
\* is listed and the names are filtered.
dl_list ==
    /\ dl_pc = "try"
    /\ \E blobs \in SUBSET BlobNames :
          /\ Cardinality(blobs) <= MaxListing
          /\ matched' = [matched EXCEPT ![days_back] =
                            Cardinality({b \in JsonBlobs(blobs, exclude_compact) :
                                            PatternMatches(b)})]
          /\ IF JsonBlobs(blobs, exclude_compact) # {}
             THEN /\ json_blobs' = JsonBlobs(blobs, exclude_compact)
                  /\ remaining' = JsonBlobs(blobs, exclude_compact)
                  /\ latest_blobs' = << >>
                  /\ dl_pc' = "group"
                  /\ UNCHANGED <<days_back, idx, bulk_data>>
             ELSE NextDate
    /\ UNCHANGED <<harvestvars, pubvars, joinvars, rfdvars, exclude_compact, skipped>>

\* One iteration of "for blob in json_blobs" (the bucket lists in any order);
\* after the last blob the processing loop starts.
dl_group ==
    /\ dl_pc = "group"
    /\ \E b \in remaining :
          /\ remaining' = remaining \ {b}
          /\ latest_blobs' = IF PatternMatches(b) THEN KeepLatest(latest_blobs, b)
                             ELSE latest_blobs
          /\ IF remaining' = {}
             THEN dl_pc' = "process" /\ idx' = 1
             ELSE UNCHANGED <<dl_pc, idx>>
    /\ UNCHANGED <<harvestvars, pubvars, joinvars, rfdvars, exclude_compact, days_back, json_blobs,
                   bulk_data, skipped, matched>>

\* One iteration of "for ... in enumerate(latest_blobs.items())".
dl_process ==
    /\ dl_pc = "process"
    /\ idx <= Len(latest_blobs)
    /\ \E outcome \in BlobOutcomes :
          /\ bulk_data' = ProcessBlob(bulk_data, latest_blobs[idx], outcome, TryDate(days_back))
          /\ skipped' = IF outcome = "ok" THEN skipped
                        ELSE skipped \cup {<<days_back, latest_blobs[idx].key>>}
    /\ idx' = idx + 1
    /\ UNCHANGED <<harvestvars, pubvars, joinvars, rfdvars, exclude_compact, days_back, dl_pc, json_blobs,
                   remaining, latest_blobs, matched>>

\* After the processing loop: "if bulk_data: return bulk_data", else the next date.
dl_finish ==
    /\ dl_pc = "process"
    /\ idx > Len(latest_blobs)
    /\ IF bulk_data # << >>
       THEN /\ dl_pc' = "returned"
            /\ UNCHANGED <<days_back, json_blobs, remaining, latest_blobs, idx, bulk_data>>
       ELSE NextDate
    /\ UNCHANGED <<harvestvars, pubvars, joinvars, rfdvars, exclude_compact, skipped, matched>>

NextLoader ==
    \/ dl_list
    \/ dl_group
    \/ dl_process
    \/ dl_finish

SpecLoader == InitLoader /\ [][NextLoader]_vars

\* ----------------------------------------------------------- delay joiner
\* generate_maps.py: the maximum-delay map (MaxDelayRouteMap) and then the
\* delay-aware map (DelayAwareRouteMap, through DataJoiner) are built from the
\* loaded routes and one BulkData list. A route is taken with one pattern; a
\* pattern is the list of the pure_id of its stops, all of them with
\* coordinates inside Hungary. A rational is a record [num, den], den > 0.

\* Route graphs and observations the joiner is run on.
PatternCatalogue ==
    {<<"A", "X", "B">>, <<"B", "X", "A">>, <<"C", "A", "X">>,
     <<"A", "X", "A", "B">>, <<"A", "Y", "Z", "B">>, <<"A", "B">>}

PairCatalogue == {<<"A", "B">>, <<"B", "A">>, <<"A", "X">>}

\* The route_segments of all routes of one BulkData, as their delay fields.
Leg(d, a) == [departure_delay |-> d, arrival_delay |-> a]

LegCatalogue ==
    {<< >>, <<Leg(7, 3)>>, <<Leg(0, -2)>>, <<Leg(10, 10)>>, <<Leg(4, 0), Leg(0, 9)>>}

BulkDataCatalogue == [pair : PairCatalogue, legs : LegCatalogue]

\* Lists of at most n distinct elements of S.
ListsUpTo(S, n) ==
    UNION {{l \in [1..m -> S] : \A a, b \in 1..m : a # b => l[a] # l[b]} : m \in 1..n}

RECURSIVE SeqSum(_)
SeqSum(ds) == IF ds = << >> THEN 0 ELSE Head(ds) + SeqSum(Tail(ds))

\* Mutant: the value appended last instead of the greatest one.
SeqMax_Last(ds) == ds[Len(ds)]

RECURSIVE SeqMax(_)
SeqMax(ds) ==
    IF Len(ds) = 1 THEN Head(ds)
    ELSE LET m == SeqMax(Tail(ds)) IN IF Head(ds) > m THEN Head(ds) ELSE m

RECURSIVE Concat(_)
Concat(ss) == IF ss = << >> THEN << >> ELSE Head(ss) \o Concat(Tail(ss))

Rat(n, d) == [num |-> n, den |-> d]
RatAdd(x, y) == Rat(x.num * y.den + y.num * x.den, x.den * y.den)

RECURSIVE RatSum(_)
RatSum(xs) == IF xs = << >> THEN Rat(0, 1) ELSE RatAdd(Head(xs), RatSum(Tail(xs)))

\* np.mean over integers, and 0 for the empty list.
Mean(ds) == IF ds = << >> THEN Rat(0, 1) ELSE Rat(SeqSum(ds), Len(ds))

\* np.mean over means.
RatMean(xs) == Rat(RatSum(xs).num, RatSum(xs).den * Len(xs))

\* delays.append(segment.departure_delay); delays.append(segment.arrival_delay)
RECURSIVE LegDelays(_)
LegDelays(legs) ==
    IF legs = << >> THEN << >>
    ELSE <<Head(legs).departure_delay, Head(legs).arrival_delay>> \o LegDelays(Tail(legs))

\* Mutant: every delay value is counted.
IsDelay_Any(d) == TRUE

\* "if d > 0": only actual delays are counted.
IsDelay(d) == d > 0

\* The delay statistics both station maps compute for one BulkData.
PairDelay(legs) ==
    LET delays == SelectSeq(LegDelays(legs), IsDelay)
    IN  [average_delay |-> Mean(delays),
         max_delay |-> IF delays = << >> THEN 0 ELSE SeqMax(delays),
         sample_count |-> Len(delays)]

\* d[key] = val on a dictionary kept as its entries in insertion order.
DictPut(d, key, val) ==
    IF \E j \in 1..Len(d) : d[j].key = key
    THEN [j \in 1..Len(d) |-> IF d[j].key = key THEN [key |-> key, val |-> val] ELSE d[j]]
    ELSE Append(d, [key |-> key, val |-> val])

RECURSIVE StationMap(_, _)
StationMap(list, d) ==
    IF list = << >> THEN d
    ELSE StationMap(Tail(list), DictPut(d, Head(list).pair, PairDelay(Head(list).legs)))

\* DataJoiner.create_station_delay_map
create_station_delay_map(list) == StationMap(list, << >>)

\* MaxDelayRouteMap.create_station_max_delay_map
create_station_max_delay_map(list) == StationMap(list, << >>)

\* Order of the matches: by pattern, then start index, then end index.
MatchBefore(x, y) ==
    \/ x[1] < y[1]
    \/ x[1] = y[1] /\ x[2] < y[2]
    \/ x[1] = y[1] /\ x[2] = y[2] /\ x[3] < y[3]

RECURSIVE SortMatches(_)
SortMatches(S) ==
    IF S = {} THEN << >>
    ELSE LET m == CHOOSE x \in S : \A y \in S \ {x} : MatchBefore(x, y)
         IN  <<m>> \o SortMatches(S \ {m})

\* Mutant: the end station may also come before the start station.
EndAfterStart_EitherWay(start_idx, end_idx) == end_idx # start_idx

\* "if end_idx > start_idx"
EndAfterStart(start_idx, end_idx) == end_idx > start_idx

\* DataJoiner.find_route_segments_for_stations: (pattern, start_idx, end_idx)
\* for every occurrence of the start station followed by the end station.
find_route_segments_for_stations(rs, start_id, end_id) ==
    SortMatches({<<p, a, b>> \in (1..Len(rs)) \X (1..4) \X (1..4) :
                    /\ a <= Len(rs[p]) /\ b <= Len(rs[p])
                    /\ rs[p][a] = start_id /\ rs[p][b] = end_id
                    /\ EndAfterStart(a, b)})

\* The RouteSegmentWithDelay records of one match: one per consecutive pair
\* of stops from start_idx to end_idx. The field pair, which the class does
\* not have, remembers the station pair the delay information belongs to.
SegmentsOfMatch(rs, m, e) ==
    [j \in 1..(m[3] - m[2]) |->
        [start_stop |-> rs[m[1]][m[2] + j - 1], end_stop |-> rs[m[1]][m[2] + j],
         pattern_id |-> m[1], average_delay |-> e.val.average_delay,
         max_delay |-> e.val.max_delay, delay_samples |-> e.val.sample_count,
         pair |-> e.key]]

SegmentsOfEntry(rs, e) ==
    LET ms == find_route_segments_for_stations(rs, e.key[1], e.key[2])
    IN  Concat([q \in 1..Len(ms) |-> SegmentsOfMatch(rs, ms[q], e)])

\* DataJoiner.create_route_segments_with_delay; add_max_delay_routes walks the
\* station pairs, their matches and the segments of a match in the same order.
create_route_segments_with_delay(rs, sd) ==
    Concat([j \in 1..Len(sd) |-> SegmentsOfEntry(rs, sd[j])])

SegmentKey(seg) == <<seg.start_stop, seg.end_stop>>

SegmentKeys(segs) == {SegmentKey(segs[j]) : j \in 1..Len(segs)}

\* add_max_delay_routes: the lists collected per segment key, reduced to the
\* maximum of the maxima and the mean of the averages.
SegmentMaxDelays(rs, smd) ==
    LET segs == create_route_segments_with_delay(rs, smd)
    IN  [key \in SegmentKeys(segs) |->
            LET mine == SelectSeq(segs, LAMBDA g : SegmentKey(g) = key)
            IN  [max_delay |-> SeqMax([j \in 1..Len(mine) |-> mine[j].max_delay]),
                 average_delay |-> RatMean([j \in 1..Len(mine) |-> mine[j].average_delay])]]

\* add_max_delay_routes, the drawing loop: patterns with fewer than three
\* stops are not drawn; a drawn pattern collects the aggregated delays of
\* those of its segments whose key has an entry.
PatternLines(rs, agg) ==
    [p \in {q \in 1..Len(rs) : Len(rs[q]) >= 3} |->
        {[at |-> at, max_delay |-> agg[<<rs[p][at], rs[p][at + 1]>>].max_delay,
          average_delay |-> agg[<<rs[p][at], rs[p][at + 1]>>].average_delay] :
            at \in {h \in 1..(Len(rs[p]) - 1) : <<rs[p][h], rs[p][h + 1]>> \in DOMAIN agg}}]

\* add_delay_routes: segment_delays[key] = segment, the last segment of a key wins.
SegmentDelays(segs) ==
    [key \in SegmentKeys(segs) |->
        segs[CHOOSE j \in 1..Len(segs) :
                /\ SegmentKey(segs[j]) = key
                /\ \A h \in (j + 1)..Len(segs) : SegmentKey(segs[h]) # key]]

\* add_delay_routes, the drawing loop: patterns with fewer than two stops are
\* not drawn; each segment of a drawn pattern uses the entry of its pair or,
\* failing that, the entry of the reverse pair.
RouteLines(rs, sdl) ==
    [p \in {q \in 1..Len(rs) : Len(rs[q]) >= 2} |->
        {[at |-> at,
          segment |-> IF <<rs[p][at], rs[p][at + 1]>> \in DOMAIN sdl
                      THEN sdl[<<rs[p][at], rs[p][at + 1]>>]
                      ELSE sdl[<<rs[p][at + 1], rs[p][at]>>]] :
            at \in {h \in 1..(Len(rs[p]) - 1) :
                      \/ <<rs[p][h], rs[p][h + 1]>> \in DOMAIN sdl
                      \/ <<rs[p][h + 1], rs[p][h]>> \in DOMAIN sdl}}]

InitJoiner ==
    /\ HarvestOff("maps")
    /\ PublisherIdle
    /\ LoaderIdle
    /\ RunIdle
    /\ routes \in ListsUpTo(PatternCatalogue, MaxPatterns)
    /\ bulk_data_list \in
          {l \in ListsUpTo(BulkDataCatalogue, MaxObservations) :
              \A a, b \in 1..Len(l) : a # b => l[a].pair # l[b].pair}
    /\ jn_pc = "max_station_map"
    /\ JoinerOutputsEmpty

jn_create_station_max_delay_map ==
    /\ jn_pc = "max_station_map"
    /\ station_max_delays' = create_station_max_delay_map(bulk_data_list)
    /\ jn_pc' = "max_routes"
    /\ UNCHANGED <<harvestvars, pubvars, loadvars, rfdvars, routes, bulk_data_list,
                   segment_max_delays, pattern_lines, station_delays,
                   enriched_segments, route_lines>>

jn_add_max_delay_routes ==
    /\ jn_pc = "max_routes"
    /\ segment_max_delays' = SegmentMaxDelays(routes, station_max_delays)
    /\ pattern_lines' = PatternLines(routes, segment_max_delays')
    /\ jn_pc' = "station_map"
    /\ UNCHANGED <<harvestvars, pubvars, loadvars, rfdvars, routes, bulk_data_list,
                   station_max_delays, station_delays, enriched_segments, route_lines>>

jn_create_station_delay_map ==
    /\ jn_pc = "station_map"
    /\ station_delays' = create_station_delay_map(bulk_data_list)
    /\ jn_pc' = "enrich"
    /\ UNCHANGED <<harvestvars, pubvars, loadvars, rfdvars, routes, bulk_data_list,
                   station_max_delays, segment_max_delays, pattern_lines,
                   enriched_segments, route_lines>>

jn_create_route_segments_with_delay ==
    /\ jn_pc = "enrich"
    /\ enriched_segments' = create_route_segments_with_delay(routes, station_delays)
    /\ jn_pc' = "routes"
    /\ UNCHANGED <<harvestvars, pubvars, loadvars, rfdvars, routes, bulk_data_list,
                   station_max_delays, segment_max_delays, pattern_lines,
                   station_delays, route_lines>>

jn_add_delay_routes ==
    /\ jn_pc = "routes"
    /\ route_lines' = RouteLines(routes, SegmentDelays(enriched_segments))
    /\ jn_pc' = "done"
    /\ UNCHANGED <<harvestvars, pubvars, loadvars, rfdvars, routes, bulk_data_list,
                   station_max_delays, segment_max_delays, pattern_lines,
                   station_delays, enriched_segments>>

NextJoiner ==
    \/ jn_create_station_max_delay_map
    \/ jn_add_max_delay_routes
    \/ jn_create_station_delay_map
    \/ jn_create_route_segments_with_delay
    \/ jn_add_delay_routes

SpecJoiner == InitJoiner /\ [][NextJoiner]_vars

\* ------------------------------------------------------- run_for_date (cli.py)
\* python -m map_generator_refactored.cli --date D --only maps|analysis|all,
\* with the default --bucket and --gcs-prefix: the maps are built from
\* BulkLoader.load_all_bulk_files_from_gcs(D), the analytics tables from
\* MAVAnalytics.load_mav_data_from_gcs_using_bulk_loader(D). The bucket does
\* not change during the run and answers every listing and download.

\* What a stored object decodes to: a harvest document with at least one
\* route, a document without routes (an empty list, or the failure record
\* {"success": false, "error": ...}), or bytes that are not JSON.
StoreContents == {"routes", "no_routes", "invalid_json"}

\* Names an object of the bucket may have under a day prefix.
StoreNames ==
    {n \in BulkNames : n.start = 1 \/ n.ts = <<0, 9>>}
        \cup {n \in OtherNames : n.kind = "analytic"}

StoreObjects ==
    {o \in [name : StoreNames, content : StoreContents] :
        o.name.kind # "bulk" => o.content = "no_routes"}

\* The objects under one day prefix: at most one object has a given name.
DayListings ==
    {s \in SUBSET StoreObjects : \A a, b \in s : a.name = b.name => a = b}

\* Buckets the run is started on: objects under the target date's prefix and
\* the prefix of the day before, nothing under any earlier one.
Buckets ==
    {[dt \in 1..LoaderMaxDaysBack |->
         IF dt = TryDate(0) THEN a ELSE IF dt = TryDate(1) THEN b ELSE {}] :
       a \in DayListings, b \in DayListings}

\* blob.download_as_text() of the object the listing holds under a name.
ContentOf(listing, n) == (CHOOSE o \in listing : o.name = n).content

\* [blob for blob in blobs if blob.name.endswith('.json') and
\*  '_compact' not in blob.name]
NonCompactBlobs(blobs) == {b \in blobs : EndsWithJson(b) /\ ~HasCompact(b)}

\* The grouping loop over the filtered listing, from an empty dictionary.
RECURSIVE GroupBlobs(_, _)
GroupBlobs(lb, blobs) ==
    IF blobs = {} THEN lb
    ELSE LET b == CHOOSE x \in blobs : TRUE
         IN  GroupBlobs(IF PatternMatches(b) THEN KeepLatest(lb, b) ELSE lb,
                        blobs \ {b})

\* json.loads and parse_bulk_json_content on the downloaded text: a document
\* parses to a BulkData whether or not it has routes.
MapOutcome(content) == IF content = "invalid_json" THEN "invalid_json" ELSE "ok"

\* The map loader's processing loop over the dictionary, entries at..Len(lb).
RECURSIVE MapProcess(_, _, _, _, _)
MapProcess(bd, lb, at, listing, date) ==
    IF at > Len(lb) THEN bd
    ELSE MapProcess(ProcessBlob(bd, lb[at],
                                MapOutcome(ContentOf(listing, lb[at].blob)), date),
                    lb, at + 1, listing, date)

\* The analytics loader's processing loop: "if bulk_data and bulk_data.routes"
\* appends the records of the blob's routes (here one route per document with
\* routes); a document that is not JSON is skipped.
RECURSIVE AnalyticsProcess(_, _, _, _, _)
AnalyticsProcess(rd, lb, at, listing, date) ==
    IF at > Len(lb) THEN rd
    ELSE AnalyticsProcess(
             IF ContentOf(listing, lb[at].blob) = "routes"
             THEN Append(rd, [start_station |-> lb[at].blob.start,
                              end_station |-> lb[at].blob.end,
                              timestamp |-> lb[at].ts, date |-> date])
             ELSE rd,
             lb, at + 1, listing, date)

\* The blobs a dictionary retains, one per key.
SelectedBlobs(lb) == {lb[j].blob : j \in 1..Len(lb)}

\* Every tried date was exhausted: the loader raises.
LoadRaised == [status |-> "raised", date |-> 0, selected |-> {}, loaded |-> << >>]

\* BulkLoader.load_all_bulk_files_from_gcs(target_date) from iteration d of
\* the look-back on: "if json_blobs:" group and process, "if bulk_data:
\* return bulk_data", else the next date; the exception after the last one.
RECURSIVE load_all_bulk_files_from_gcs(_, _)
load_all_bulk_files_from_gcs(bk, d) ==
    IF d >= LoaderMaxDaysBack THEN LoadRaised
    ELSE LET listing == bk[TryDate(d)]
             names == JsonBlobs({o.name : o \in listing}, TRUE)
             lb == GroupBlobs(<< >>, names)
             bd == MapProcess(<< >>, lb, 1, listing, TryDate(d))
         IN  IF names # {} /\ bd # << >>
             THEN [status |-> "returned", date |-> TryDate(d),
                   selected |-> SelectedBlobs(lb), loaded |-> bd]
             ELSE load_all_bulk_files_from_gcs(bk, d + 1)

\* MAVAnalytics.load_mav_data_from_gcs_using_bulk_loader(target_date) from
\* iteration d on: "if non_compact_blobs:" group and process, "if routes_data:
\* return routes_data, all_json_content", else the next date.
RECURSIVE load_mav_data_from_gcs_using_bulk_loader(_, _)
load_mav_data_from_gcs_using_bulk_loader(bk, d) ==
    IF d >= LoaderMaxDaysBack THEN LoadRaised
    ELSE LET listing == bk[TryDate(d)]
             names == NonCompactBlobs({o.name : o \in listing})
             lb == GroupBlobs(<< >>, names)
             rd == AnalyticsProcess(<< >>, lb, 1, listing, TryDate(d))
         IN  IF names # {} /\ rd # << >>
             THEN [status |-> "returned", date |-> TryDate(d),
                   selected |-> SelectedBlobs(lb), loaded |-> rd]
             ELSE load_mav_data_from_gcs_using_bulk_loader(bk, d + 1)

InitRun ==
    /\ HarvestOff("maps_cli")
    /\ PublisherIdle
    /\ LoaderIdle
    /\ JoinerIdle
    /\ bucket \in Buckets
    /\ only \in {"maps", "analysis", "all"}
    /\ rfd_pc = "maps"
    /\ map_load = NotLoaded
    /\ analytics_load = NotLoaded

\* "if only in ('maps', 'all')": the bulk data list is loaded (an exception is
\* caught and printed) and the two maps are generated from it.
rfd_maps ==
    /\ rfd_pc = "maps"
    /\ map_load' = IF only \in {"maps", "all"}
                   THEN load_all_bulk_files_from_gcs(bucket, 0)
                   ELSE map_load
    /\ rfd_pc' = "analysis"
    /\ UNCHANGED <<harvestvars, pubvars, loadvars, joinvars, bucket, only, analytics_load>>

\* "if only in ('analysis', 'all')": run_mav_analysis_for_date(target_date)
\* loads the day's data first; an exception is caught and printed.
rfd_analysis ==
    /\ rfd_pc = "analysis"
    /\ analytics_load' = IF only \in {"analysis", "all"}
                         THEN load_mav_data_from_gcs_using_bulk_loader(bucket, 0)
                         ELSE analytics_load
    /\ rfd_pc' = "done"
    /\ UNCHANGED <<harvestvars, pubvars, loadvars, joinvars, bucket, only, map_load>>

NextRun ==
    \/ rfd_maps
    \/ rfd_analysis

SpecRun == InitRun /\ [][NextRun]_vars

\* ================================================================== claims
\* A background thread is alive from its start until its last status update.
Live(r) == thr[r] \notin {"none", "done"}

\* Requests that own the run: accepted under the lock, thread not yet finished.
ActiveRuns == {r \in Requests : req[r] = "spawn" \/ Live(r)}

\* C1: at most one harvest run is active at any time; a start request that
\* arrives while a run is active gets the conflict answer (409), leaves the
\* run-status record unchanged and starts no thread; a start request that
\* finds no run active is the one that starts the background run.
C1_OneRunAtATime ==
    /\ [](/\ Cardinality(ActiveRuns) <= 1
          /\ (ActiveRuns # {} => scraping_status.is_running))
    /\ [][\A r \in Requests :
            (req[r] = "new" /\ req'[r] # "new") =>
               IF ActiveRuns # {}
               THEN /\ req'[r] = "conflict"
                    /\ scraping_status' = scraping_status
                    /\ thr' = thr
               ELSE /\ req'[r] = "spawn"
                    /\ scraping_status'.is_running]_vars

\* C1 witness: one request was answered 409 while another request's thread runs.
C1_Witness ==
    \E r1, r2 \in Requests : r1 # r2 /\ req[r1] = "conflict" /\ Live(r2)

C3_Claim ==
    (entry = "web" /\ raised # "None" /\ ~scraping_status.is_running) =>
        /\ scraping_status.status = "failed"
        /\ scraping_status.last_error = raised
        /\ final_uploads = 1

\* C4: every pair of the capped list is attempted exactly once in a run and
\* no pair is requested from the upstream API a second time.
C4_Claim ==
    /\ \A p \in Pairs : attempts[p] <= 1
    /\ rpc = "evaluate" => \A p \in Pairs : attempts[p] = (IF p <= stats.total_pairs THEN 1 ELSE 0)
    /\ calls <= 1

C6_Claim ==
    [][(ppc = "finally" /\ ~ret) =>
          /\ FilesOfPair(files, i) = {}
          /\ stats'.failed = stats.failed + 1
          /\ stats'.successful = stats.successful]_vars

\* C7: an offer request that met a transport error or an HTTP 5xx answer is
\* retried before the pair is reported failed.
C7_Claim ==
    (ppc = "finally" /\ ~ret /\ first_resp \in {"http5xx", "neterr"}) => calls > 1

\* C8: with upload on and interval K > 0 the progress callback has run after
\* every K completed pairs of the run, and the final batch once at completion.
C8_Claim ==
    (rpc = "returned" /\ args.upload /\ args.interval > 0 /\ uploader /\ csv_len > 0) =>
        /\ upload_stats.incremental_uploads =
              CappedLen(args.max_pairs, csv_len) \div args.interval
        /\ final_uploads = 1

\* C9: every run with upload enabled has invoked the final upload batch
\* exactly once when it returns, whatever the harvest outcome.
C9_Claim ==
    (rpc = "returned" /\ args.upload /\ uploader) => final_uploads = 1

Synced == \A f \in files : f \in gcs

\* C11: in one upload batch (here the first batch into an empty day prefix) a
\* file is reported as uploaded exactly when it was uploaded: a failing file
\* does not turn the report of the other files into failures.
C11_Claim ==
    [][(invocations' # invocations /\ gcs = {} /\ upload_results' # upload_results) =>
          \A f \in files : upload_results'[f.name] = (f \in gcs')]_vars

\* C12: after a run whose final upload reported no error, the number of
\* distinct object names under the day prefix equals the number of pairs the
\* run counted successful.
C12_Claim ==
    (rpc = "returned" /\ final_uploads = 1 /\ upload_stats.upload_errors = 0
        /\ upload_stats.final_files_uploaded = Cardinality(files)) =>
        Cardinality({o.name : o \in gcs}) = stats.successful

\* C13: running the uploader again when every local file is already in the
\* bucket with the same bytes (nothing was added or changed since a successful
\* run) leaves the content of the bucket unchanged, whether the copy command
\* of the second run succeeds or fails.
C13_ReuploadNoOp ==
    [][(invocations' # invocations /\ Synced) => gcs' = gcs]_vars

\* C13 witness: the second run found the single local file already mirrored
\* by the first, successful run; its own copy command failed (the report says
\* not uploaded) and the bucket still holds the file.
C13_Witness ==
    /\ invocations = 2
    /\ Cardinality(files) = 1
    /\ Synced
    /\ \A f \in files : ~upload_results[f.name]

\* The instant a timestamp suffix denotes (here: the hour).
StampValue(t) == 10 * t[1] + t[2]

\* The ordered pairs of the parsed observations, and the observations of a pair.
Observations(key) ==
    {j \in 1..Len(bulk_data) :
        <<bulk_data[j].start_station, bulk_data[j].end_station>> = key}

\* Blobs of the tried date that carry the harvest name of the ordered pair key.
BlobsOfPair(key) ==
    {b \in json_blobs : PatternMatches(b) /\ <<b.start, b.end>> = key}

PairKeys == {<<a, b>> : a, b \in LoaderStations}

\* C14: the list the day loader builds holds at most one observation per
\* ordered (origin, destination) pair, and only for pairs that have a blob on
\* the tried date; (1,2) and (2,1) are different pairs.
C14_AtMostOnePerPair ==
    \A key \in PairKeys :
        /\ Cardinality(Observations(key)) <= 1
        /\ Observations(key) # {} => BlobsOfPair(key) # {}

\* C14 witness: the loader returned one observation for (1,2) and one for
\* (2,1), the pair (1,2) having two blobs on that date.
C14_Witness ==
    /\ dl_pc = "returned"
    /\ Cardinality(BlobsOfPair(<<1, 2>>)) = 2
    /\ Observations(<<1, 2>>) # {}
    /\ Observations(<<2, 1>>) # {}

\* C15: once the grouping loop has ended, whatever the order the blobs were
\* listed in, the blob kept for an ordered pair is the one of that pair with
\* the latest timestamp suffix, and an observation returned for the pair
\* carries that timestamp.
C15_LatestRetained ==
    dl_pc \in {"process", "returned"} =>
        \A key \in PairKeys :
            /\ BlobsOfPair(key) # {} =>
                  \E j \in 1..Len(latest_blobs) :
                      /\ latest_blobs[j].key = key
                      /\ latest_blobs[j].blob \in BlobsOfPair(key)
                      /\ latest_blobs[j].ts = latest_blobs[j].blob.ts
                      /\ \A b \in BlobsOfPair(key) :
                            StampValue(b.ts) <= StampValue(latest_blobs[j].ts)
            /\ \A j \in Observations(key) : \A b \in BlobsOfPair(key) :
                  StampValue(b.ts) <= StampValue(bulk_data[j].timestamp)

\* C15 witness: the pair (1,2) had the blobs of 09h and 10h and the loader
\* returned its observation of 10h.
C15_Witness ==
    /\ dl_pc = "returned"
    /\ Cardinality(BlobsOfPair(<<1, 2>>)) = 2
    /\ \E j \in Observations(<<1, 2>>) : bulk_data[j].timestamp = <<1, 0>>

\* C16: the data returned comes from the most recent date of the window that
\* has harvest blobs: no more recent tried date had any.
C16_Claim ==
    dl_pc = "returned" => \A d \in 0..(days_back - 1) : matched[d] = 0

\* C17: a retained blob that fails to download, decode or parse is reported
\* and skipped; the blobs processed so far and after it are kept, so the list
\* returned holds every retained blob that parsed; the loader raises only when
\* the look-back window is exhausted.
C17_SkipsFailures ==
    /\ dl_pc \in {"process", "returned"} =>
          \A j \in 1..Len(latest_blobs) :
              j < idx =>
                 (<<days_back, latest_blobs[j].key>> \in skipped) #
                 (\E o \in Observations(latest_blobs[j].key) :
                      bulk_data[o] = ParsedBulkData(latest_blobs[j], TryDate(days_back)))
    /\ dl_pc = "raised" => days_back = LoaderMaxDaysBack

\* C17 witness: the loader returned the observation of one pair after it had
\* skipped the failing blob of the other pair, processed first.
C17_Witness ==
    /\ dl_pc = "returned"
    /\ Len(latest_blobs) = 2
    /\ <<days_back, latest_blobs[1].key>> \in skipped
    /\ Observations(latest_blobs[2].key) # {}


\* The legs observed for a station pair, and their strictly positive delays
\* as positions of the flat list of departure and arrival delays.
LegsOf(key) ==
    LET j == CHOOSE h \in 1..Len(bulk_data_list) : bulk_data_list[h].pair = key
    IN  bulk_data_list[j].legs

PositiveDelays(legs) ==
    {<<j, f>> \in (1..Len(legs)) \X {"departure_delay", "arrival_delay"} : legs[j][f] > 0}

RECURSIVE PositiveTotal(_)
PositiveTotal(P) ==
    IF P = {} THEN 0
    ELSE LET x == CHOOSE y \in P : TRUE IN 1 + PositiveTotal(P \ {x})

RECURSIVE DelayTotal(_, _)
DelayTotal(legs, P) ==
    IF P = {} THEN 0
    ELSE LET x == CHOOSE y \in P : TRUE IN legs[x[1]][x[2]] + DelayTotal(legs, P \ {x})

SummaryOK(e) ==
    LET legs == LegsOf(e.key)
        P == PositiveDelays(legs)
        v == e.val
    IN  /\ v.average_delay.den > 0
        /\ v.max_delay * v.average_delay.den >= v.average_delay.num
        /\ v.average_delay.num >= 0
        /\ v.sample_count >= 0
        /\ v.sample_count = PositiveTotal(P)
        /\ v.sample_count = 0 => v.average_delay.num = 0 /\ v.max_delay = 0
        /\ v.sample_count > 0 =>
              /\ \E x \in P : legs[x[1]][x[2]] = v.max_delay
              /\ \A x \in P : legs[x[1]][x[2]] <= v.max_delay
              /\ v.average_delay.num * v.sample_count = DelayTotal(legs, P) * v.average_delay.den
        /\ legs = <<Leg(7, 3)>> =>
              /\ v.max_delay = 7
              /\ v.average_delay.num = 5 * v.average_delay.den
              /\ v.sample_count = 2

\* C18: every per-pair delay summary, of the delay map and of the maximum
\* delay map alike, has max >= mean >= 0 and sample_count >= 0, is all zero
\* when sample_count is 0, and is computed from the strictly positive
\* departure and arrival delays of the pair's legs only (one leg with the
\* delays 7 and 3 gives max 7, mean 5, sample_count 2).
C18_SummaryBounds ==
    /\ \A j \in 1..Len(station_delays) : SummaryOK(station_delays[j])
    /\ \A j \in 1..Len(station_max_delays) : SummaryOK(station_max_delays[j])

C18_Witness ==
    /\ jn_pc = "done"
    /\ \E j \in 1..Len(station_delays) :
          /\ LegsOf(station_delays[j].key) = <<Leg(7, 3)>>
          /\ station_delays[j].val.sample_count = 2
    /\ \E j \in 1..Len(station_max_delays) :
          /\ LegsOf(station_max_delays[j].key) = <<Leg(0, -2)>>
          /\ station_max_delays[j].val.sample_count = 0

\* The origin of the pair occurs before its destination in the pattern.
InPatternOrder(pat, key) ==
    \E a, b \in 1..Len(pat) : a < b /\ pat[a] = key[1] /\ pat[b] = key[2]

\* C19: only the pattern-native order is matched: a segment of a drawn
\* pattern uses the delay of a pair (origin, destination) only if the origin
\* occurs before the destination in that pattern, and never the delay of a
\* pair that traverses the segment in the reverse direction.
C19_Claim ==
    \A p \in DOMAIN route_lines : \A u \in route_lines[p] :
        /\ InPatternOrder(routes[p], u.segment.pair)
        /\ SegmentKey(u.segment) = <<routes[p][u.at], routes[p][u.at + 1]>>

\* The contributions pattern p itself makes to its segment at position at:
\* one per station pair with a summary and per occurrence of that pair in p,
\* origin at a and destination at b, that spans the segment.
Contributions(p, pos) ==
    {<<j, a, b>> \in (1..Len(station_max_delays)) \X (1..Len(routes[p])) \X (1..Len(routes[p])) :
        /\ routes[p][a] = station_max_delays[j].key[1]
        /\ routes[p][b] = station_max_delays[j].key[2]
        /\ a <= pos /\ pos < b}

RECURSIVE ContributionTotal(_)
ContributionTotal(C) ==
    IF C = {} THEN Rat(0, 1)
    ELSE LET x == CHOOSE y \in C : TRUE
         IN  RatAdd(station_max_delays[x[1]].val.average_delay, ContributionTotal(C \ {x}))

RatEqual(x, y) == x.num * y.den = y.num * x.den

\* C20: per-segment aggregates are computed independently per pattern: the
\* aggregate a drawn pattern P shows for one of its segments is the maximum
\* and the mean over the contributions of the pairs covered by P alone, and
\* a segment no pair covers through P has no aggregate in P.
C20_Claim ==
    \A p \in DOMAIN pattern_lines : \A pos \in 1..(Len(routes[p]) - 1) :
        LET C == Contributions(p, pos)
            shown == {u \in pattern_lines[p] : u.at = pos}
        IN  IF C = {} THEN shown = {}
            ELSE \E u \in shown :
                    /\ \E x \in C : station_max_delays[x[1]].val.max_delay = u.max_delay
                    /\ \A x \in C : station_max_delays[x[1]].val.max_delay <= u.max_delay
                    /\ RatEqual(u.average_delay,
                                Rat(ContributionTotal(C).num,
                                    ContributionTotal(C).den * Cardinality(C)))

\* The one match the pair key has in pattern pat: from the earliest occurrence
\* of the origin that the destination follows to the earliest later
\* occurrence of the destination.
EarliestOrigin(pat, key) ==
    CHOOSE a \in 1..Len(pat) :
        /\ pat[a] = key[1] /\ \E b \in (a + 1)..Len(pat) : pat[b] = key[2]
        /\ \A c \in 1..(a - 1) : ~(pat[c] = key[1] /\ \E b \in (c + 1)..Len(pat) : pat[b] = key[2])

EarliestLaterDestination(pat, key) ==
    CHOOSE b \in (EarliestOrigin(pat, key) + 1)..Len(pat) :
        /\ pat[b] = key[2]
        /\ \A c \in (EarliestOrigin(pat, key) + 1)..(b - 1) : pat[c] # key[2]

\* The enriched segments pattern p received for the pair key, as positions
\* of enriched_segments.
EnrichedFor(p, key) ==
    {j \in 1..Len(enriched_segments) :
        enriched_segments[j].pattern_id = p /\ enriched_segments[j].pair = key}

\* C21: a pair is matched once per pattern, from the earliest occurrence of
\* the origin to the earliest later occurrence of the destination, and only
\* the segments between those two indices receive the pair's summary, each
\* of them once.
C21_Claim ==
    jn_pc \in {"routes", "done"} =>
        \A e \in 1..Len(station_delays) : \A p \in 1..Len(routes) :
            LET key == station_delays[e].key
                got == EnrichedFor(p, key)
            IN  IF ~InPatternOrder(routes[p], key) THEN got = {}
                ELSE LET a0 == EarliestOrigin(routes[p], key)
                         b0 == EarliestLaterDestination(routes[p], key)
                     IN  /\ Cardinality(got) = b0 - a0
                         /\ \A pos \in a0..(b0 - 1) : \E j \in got :
                               SegmentKey(enriched_segments[j]) =
                                  <<routes[p][pos], routes[p][pos + 1]>>

\* The pair summaries that contributed to the segment key: those of the
\* station pairs with an occurrence, in some pattern, that spans a segment
\* with that key.
Contributors(key) ==
    {j \in 1..Len(station_max_delays) :
        \E p \in 1..Len(routes) : \E a, b, pos \in 1..Len(routes[p]) :
            /\ routes[p][a] = station_max_delays[j].key[1]
            /\ routes[p][b] = station_max_delays[j].key[2]
            /\ a <= pos /\ pos < b
            /\ <<routes[p][pos], routes[p][pos + 1]>> = key}

\* C22: for every segment that has delay data, the aggregated max_delay is
\* the max of one of the pair summaries that contributed to the segment and
\* is not smaller than the max of any of them.
C22_AggregatedMaxIsSupremum ==
    \A key \in DOMAIN segment_max_delays :
        /\ \E j \in Contributors(key) :
              station_max_delays[j].val.max_delay = segment_max_delays[key].max_delay
        /\ \A j \in Contributors(key) :
              station_max_delays[j].val.max_delay <= segment_max_delays[key].max_delay

C22_Witness ==
    /\ jn_pc = "station_map"
    /\ \E key \in DOMAIN segment_max_delays : \E j, h \in Contributors(key) :
          /\ j < h
          /\ station_max_delays[j].val.max_delay = 10
          /\ station_max_delays[h].val.max_delay = 7
          /\ segment_max_delays[key].max_delay = 10

\* The station pairs whose observation has no routes at all.
ZeroRoutePairs ==
    {bulk_data_list[j].pair : j \in {h \in 1..Len(bulk_data_list) : bulk_data_list[h].legs = << >>}}

\* C23: the joiner contributes nothing for a pair whose observation has zero
\* routes: no enriched segment carries the summary of such a pair, and no
\* segment has delay data, not even a zero-valued entry, only because of
\* such pairs.
C23_Claim ==
    /\ \A j \in 1..Len(enriched_segments) : enriched_segments[j].pair \notin ZeroRoutePairs
    /\ \A key \in DOMAIN segment_max_delays :
          \E j \in Contributors(key) : station_max_delays[j].key \notin ZeroRoutePairs

\* C25: a per-pair error never terminates a run: while the loop runs every
\* pair before the current one was attempted once, and a run whose loop was
\* entered ends with every pair of the capped list attempted once and
\* processed equal to the length of the capped list, whatever the outcomes.
C25_ErrorsIsolated ==
    /\ rpc = "loop" =>
          /\ \A p \in 1..(i - 1) : attempts[p] = 1
          /\ stats.processed = i - 1
    /\ rpc \in {"evaluate", "returned"} /\ stats.total_pairs > 0 =>
          /\ stats.total_pairs = CappedLen(args.max_pairs, csv_len)
          /\ stats.processed = stats.total_pairs
          /\ \A p \in 1..stats.total_pairs : attempts[p] = 1

C25_Witness ==
    /\ rpc = "returned"
    /\ stats.total_pairs >= 2
    /\ stats.failed = stats.total_pairs
    /\ stats.processed = stats.total_pairs
    /\ files # {}

\* C26: when base_delay <= 0 no sleep is performed anywhere on the path of a
\* pair attempt, and the run still completes, with a blob for every pair it
\* counted successful.
C26_Claim ==
    (rpc \in {"loop", "evaluate", "returned"} /\ args.delay <= 0) =>
        /\ sleeps = 0
        /\ (rpc # "loop" /\ stats.total_pairs > 0) =>
              /\ stats.processed = stats.total_pairs
              /\ Cardinality({p \in Pairs : FilesOfPair(files, p) # {}}) >= stats.successful

\* C27: after every pair iteration processed = successful + failed and
\* processed <= total_pairs; an iteration increases processed by exactly 1
\* and exactly one of successful and failed by 1; when the loop has ended
\* processed = total_pairs.
C27_CountersPerIteration ==
    [][/\ stats'.processed = stats'.successful + stats'.failed
       /\ stats'.processed <= stats'.total_pairs
       /\ (rpc = "loop" /\ ppc = "finally") =>
             /\ stats'.processed = stats.processed + 1
             /\ stats'.total_pairs = stats.total_pairs
             /\ \/ stats'.successful = stats.successful + 1 /\ stats'.failed = stats.failed
                \/ stats'.successful = stats.successful /\ stats'.failed = stats.failed + 1
       /\ (rpc = "loop" /\ rpc' # "loop") => stats'.processed = stats'.total_pairs
       /\ (rpc = "loop" /\ ppc # "finally") => stats' = stats]_vars

C27_Witness ==
    /\ rpc = "returned"
    /\ stats.total_pairs >= 2
    /\ stats.processed = stats.total_pairs
    /\ stats.successful >= 1
    /\ stats.failed >= 1

\* C28: every run that was started eventually clears the active flag, with
\* the end time set, whether the harvest returned success or failure or the
\* thread raised; the service is never left running forever.
C28_RunEnds ==
    /\ \A r \in Requests :
          (req[r] = "spawn") ~>
             (thr[r] = "done" /\ ~scraping_status.is_running
                 /\ scraping_status.end_time = "set")
    /\ scraping_status.is_running ~> ~scraping_status.is_running

C28_Witness ==
    \E r, q \in Requests :
        /\ thr[r] = "done"
        /\ scraping_status.status = "failed"
        /\ ~scraping_status.is_running
        /\ scraping_status.end_time = "set"
        /\ thr[q] = "done"
        /\ req[q] = "ok"
        /\ q # r
        /\ \E c \in Requests : req[c] = "conflict"

\* C29: whenever a pair is counted successful, the blobs written for that
\* pair record a successful observation; no pair is counted successful while
\* a blob of it holds a failure record.
C29_Claim ==
    (rpc = "loop" /\ ppc = "finally" /\ ret) =>
        /\ FilesOfPair(files, i) # {}
        /\ \A f \in FilesOfPair(files, i) : f.content.success


\* C30: after run_for_date with --only all on one bucket and one target date,
\* the map loader and the analytics loader ended the same way (both returned
\* or both raised), took their data from the same effective date and retained
\* the same blob for every ordered pair.
C30_Claim ==
    (rfd_pc = "done" /\ only = "all") =>
        /\ map_load.status = analytics_load.status
        /\ map_load.date = analytics_load.date
        /\ map_load.selected = analytics_load.selected

====
